---------------------------- MODULE Spec2Model ----------------------------
(***************************************************************************)
(* A model of sarctool (src/src/main.rs): the command dispatcher and the   *)
(* five operations zip, unzip, into-zip, from-zip and list.                *)
(*                                                                         *)
(* Text is modelled as a sequence of one-character strings, so that the    *)
(* operations on text the code performs (formatting numbers, rendering hex *)
(* pairs, joining and splitting paths) are computed, not assumed.  A byte  *)
(* is a number in 0..255, a payload a sequence of bytes.  Option<T> is a   *)
(* sequence of length 0 (None) or 1 (Some).                                *)
(***************************************************************************)
EXTENDS Integers, Sequences, FiniteSets, TLC

\* Bounds of the model.
MaxEntries == 2
MaxFiles == 3

---------------------------------------------------------------------------
\* Option<T>
None == <<>>
Some(x) == <<x>>
IsSome(o) == Len(o) = 1
Unwrap(o) == o[1]

\* Sequences over S of length at most n.
SeqsUpTo(S, n) == UNION {[1..k -> S] : k \in 0..n}

\* The injective sequences enumerating the finite set S.
Orders(S) ==
  {s \in [1..Cardinality(S) -> S] : \A i, j \in 1..Cardinality(S) : s[i] = s[j] => i = j}

IsPrefix(p, s) == Len(p) <= Len(s) /\ SubSeq(s, 1, Len(p)) = p

---------------------------------------------------------------------------
\* Text.

DecDigits == <<"0", "1", "2", "3", "4", "5", "6", "7", "8", "9">>

\* usize::to_string, and "{}" of an integer: the decimal digits of n.
RECURSIVE to_string(_)
to_string(n) ==
  IF n < 10 THEN <<DecDigits[n + 1]>>
  ELSE to_string(n \div 10) \o <<DecDigits[(n % 10) + 1]>>

UpperHexDigits ==
  <<"0", "1", "2", "3", "4", "5", "6", "7", "8", "9", "A", "B", "C", "D", "E", "F">>

LowerHexDigits ==
  <<"0", "1", "2", "3", "4", "5", "6", "7", "8", "9", "a", "b", "c", "d", "e", "f">>

\* A bug hex could have: "{:02x}", lower-case digits.
hexLower(byte) ==
  <<LowerHexDigits[(byte \div 16) + 1], LowerHexDigits[(byte % 16) + 1]>>

\* fn hex: format!("{:02X}", byte), two upper-case hex digits, zero padded.
hex(byte) ==
  <<UpperHexDigits[(byte \div 16) + 1], UpperHexDigits[(byte % 16) + 1]>>

\* The characters from space to tilde (codes 32..126) in code order.  The
\* grave accent (code 96) is written "grave": the parser cannot read it.
AsciiPrintable ==
  <<" ", "!", "\"", "#", "$", "%", "&", "'", "(", ")", "*", "+", ",", "-", ".", "/",
    "0", "1", "2", "3", "4", "5", "6", "7", "8", "9", ":", ";", "<", "=", ">", "?",
    "@", "A", "B", "C", "D", "E", "F", "G", "H", "I", "J", "K", "L", "M", "N", "O",
    "P", "Q", "R", "S", "T", "U", "V", "W", "X", "Y", "Z", "[", "\\", "]", "^", "_",
    "grave", "a", "b", "c", "d", "e", "f", "g", "h", "i", "j", "k", "l", "m", "n", "o",
    "p", "q", "r", "s", "t", "u", "v", "w", "x", "y", "z", "{", "|", "}", "~">>

\* fn byte_char: the byte as a character when in space..=tilde, a dot otherwise.
byte_char(byte) ==
  IF 32 <= byte /\ byte <= 126 THEN AsciiPrintable[byte - 31] ELSE "."

\* fn size: the raw count, or the CONVENTIONAL rendering of humansize (divider
\* 1024, a space, unit "B" below 1024; the sizes of the model stay below 1024).
size(n, byte_count) ==
  IF byte_count THEN to_string(n) ELSE to_string(n) \o <<" ", "B">>

\* Iterator::map(f).collect::<String>() over a sequence of bytes.
RECURSIVE CollectHex(_)
CollectHex(bytes) ==
  IF bytes = <<>> THEN <<>> ELSE hex(Head(bytes)) \o CollectHex(Tail(bytes))

RECURSIVE CollectChars(_)
CollectChars(bytes) ==
  IF bytes = <<>> THEN <<>> ELSE <<byte_char(Head(bytes))>> \o CollectChars(Tail(bytes))

---------------------------------------------------------------------------
\* Paths.  A path is a sequence of components, each a text; an absolute
\* path is written from the root, which is the empty sequence.

\* Path::components of a text: split on the slash, empty components dropped.
RECURSIVE SplitFrom(_, _, _)
SplitFrom(s, i, cur) ==
  IF i > Len(s) THEN (IF cur = <<>> THEN <<>> ELSE <<cur>>)
  ELSE IF s[i] = "/" THEN (IF cur = <<>> THEN <<>> ELSE <<cur>>) \o SplitFrom(s, i + 1, <<>>)
  ELSE SplitFrom(s, i + 1, Append(cur, s[i]))

Components(s) == SplitFrom(s, 1, <<>>)

HasRoot(s) == Len(s) > 0 /\ s[1] = "/"

\* to_string_lossy of a relative path: its components joined by a slash.
RECURSIVE JoinPath(_)
JoinPath(p) ==
  IF Len(p) = 0 THEN <<>>
  ELSE IF Len(p) = 1 THEN p[1]
  ELSE p[1] \o <<"/">> \o JoinPath(Tail(p))

\* str::replace("\\", "/")
ReplaceBackslash(s) == [i \in 1..Len(s) |-> IF s[i] = "\\" THEN "/" ELSE s[i]]

\* What the operating system makes of a path: "." skipped, ".." up one
\* directory (the root is its own parent).
RECURSIVE ResolveFrom(_, _)
ResolveFrom(acc, p) ==
  IF p = <<>> THEN acc
  ELSE IF Head(p) = <<".">> THEN ResolveFrom(acc, Tail(p))
  ELSE IF Head(p) = <<".", ".">>
    THEN ResolveFrom(IF acc = <<>> THEN <<>> ELSE SubSeq(acc, 1, Len(acc) - 1), Tail(p))
  ELSE ResolveFrom(Append(acc, Head(p)), Tail(p))

Resolve(p) == ResolveFrom(<<>>, p)

\* Path::parent: the path without its last component.  unzip unwraps it;
\* every name of the model leaves a path that has a parent.
Parent(p) == SubSeq(p, 1, Len(p) - 1)

---------------------------------------------------------------------------
\* The archive model: sarc::SarcFile, sarc::SarcEntry, sarc::Endian.

SarcEntry(name, data) == [name |-> name, data |-> data]
SarcFile(byte_order, files) == [byte_order |-> byte_order, files |-> files]

\* A file on disk that holds, or should hold, an archive or a ZIP container.
Absent == [kind |-> "absent", byte_order |-> "Little", files |-> <<>>, wrap |-> "none"]
Garbage == [kind |-> "garbage", byte_order |-> "Little", files |-> <<>>, wrap |-> "none"]
ZipFile(members) == [kind |-> "zip", byte_order |-> "Little", files |-> members, wrap |-> "none"]

\* The entries the archives of the model are made of.
TestBin ==
  SarcEntry(Some(<<"t", "e", "s", "t", ".", "b", "i", "n">>), <<1, 2, 3, 4, 5, 6>>)
NestedEntry == SarcEntry(Some(<<"d", "/", "c", ".", "t">>), <<32, 126, 127, 31>>)
UnnamedEntry == SarcEntry(None, <<72, 105, 0, 255>>)
ShortEntry == SarcEntry(None, <<1, 2>>)
RootedEntry == SarcEntry(Some(<<"/", "x">>), <<>>)
DotDotEntry == SarcEntry(Some(<<".", ".", "/", "y">>), <<7, 8, 9>>)

EntryPool == {TestBin, NestedEntry, UnnamedEntry, ShortEntry, RootedEntry, DotDotEntry}

GivenArchives ==
  {[kind |-> "sarc", byte_order |-> b, files |-> f, wrap |-> "write_to_file"] :
     b \in {"Little", "Big"}, f \in SeqsUpTo(EntryPool, MaxEntries)}

ZipMember(name, data) == [name |-> name, data |-> data]

MemberPool ==
  {ZipMember(Unwrap(TestBin.name), TestBin.data),
   ZipMember(Unwrap(NestedEntry.name), NestedEntry.data),
   ZipMember(<<"0", ".", "b", "i", "n">>, <<>>)}

GivenZips == {ZipFile(m) : m \in SeqsUpTo(MemberPool, MaxEntries)}

\* The nodes the input directories of the model are made of, by their path
\* relative to the directory.
FileNode(path, data) == [path |-> path, kind |-> "file", data |-> data]
DirNode(path) == [path |-> path, kind |-> "dir", data |-> <<>>]

NodePool ==
  {FileNode(<< <<"c", ".", "t">> >>, <<98, 121, 101>>),
   FileNode(<< <<"a">>, <<"b", ".", "t">> >>, <<104, 105>>),
   FileNode(<< <<"R">> >>, <<1>>),
   FileNode(<< <<"e", "\\", "f", ".", "t">> >>, <<2>>),
   DirNode(<< <<"v", ".", "1">> >>)}

Trees == {t \in SUBSET NodePool : Cardinality(t) <= MaxFiles}

\* The output directory of unzip, an absolute path; the root exists.
OutDir == << <<"o">> >>
Existing == {<<>>}

---------------------------------------------------------------------------
\* The command line: enum Command, as structopt and clap read it.

Verbs == {"zip", "unzip", "into_zip", "from_zip", "list"}

Command(verb, yaz0, zstd, big_endian, little_endian, byte_count) ==
  [verb |-> verb, yaz0 |-> yaz0, zstd |-> zstd, big_endian |-> big_endian,
   little_endian |-> little_endian, byte_count |-> byte_count]

NoCommand == Command("none", FALSE, FALSE, FALSE, FALSE, FALSE)

Commands ==
  {Command(v, y, z, b, l, FALSE) : v \in {"zip", "from_zip"}, y, z, b, l \in BOOLEAN}
  \cup {Command(v, FALSE, FALSE, FALSE, FALSE, FALSE) : v \in {"unzip", "into_zip"}}
  \cup {Command("list", FALSE, FALSE, FALSE, FALSE, c) : c \in BOOLEAN}

\* The flags of Zip and FromZip, each by the name of its field.
FlagNames == {"yaz0", "zstd", "big_endian", "little_endian"}

\* The name clap knows the argument of a field by: structopt derives it
\* from the name of the field, in kebab case.
ArgName(flag) ==
  CASE flag = "big_endian" -> "big-endian"
    [] flag = "little_endian" -> "little-endian"
    [] OTHER -> flag

\* The conflicts_with attribute of each flag: names of arguments.
conflicts_with(flag) ==
  CASE flag = "zstd" -> {"yaz0"}
    [] flag = "little_endian" -> {"big"}
    [] OTHER -> {}

\* The arguments a command line sets.
Present(c) == {ArgName(f) : f \in {g \in FlagNames : c[g]}}

\* Args::from_args: clap rejects a command line on which an argument is
\* present together with one that its conflicts_with names.  A name that no
\* argument has conflicts with nothing.
Rejects(c) ==
  /\ c.verb \in {"zip", "from_zip"}
  /\ \E f \in FlagNames : c[f] /\ conflicts_with(f) \cap Present(c) # {}

\* fn endian
endian(big) == IF big THEN "Big" ELSE "Little"

\* A bug write could have: zstd tested first and given the yaz0 writer.
writerSwapped(yaz0, zstd) ==
  IF zstd THEN "write_yaz0" ELSE IF yaz0 THEN "write_zstd" ELSE "write_to_file"

\* fn write: the writer of the archive library the flags select.
writer(yaz0, zstd) ==
  IF yaz0 THEN "write_yaz0" ELSE IF zstd THEN "write_zstd" ELSE "write_to_file"

\* fn write: the file the selected writer leaves at out_file.
write(sarc, yaz0, zstd) ==
  [kind |-> "sarc", byte_order |-> sarc.byte_order, files |-> sarc.files,
   wrap |-> writer(yaz0, zstd)]

\* SarcFile::read_from_file: succeeds on an archive, whatever wrapper it has.
Decodable(file) == file.kind = "sarc"
read_from_file(file) == SarcFile(file.byte_order, file.files)

---------------------------------------------------------------------------
\* zip

\* glob::glob(in_dir + "/**/*.*"): the nodes at any depth, files and
\* directories alike, whose last component holds a dot.
glob(tree) ==
  {n \in tree : \E i \in 1..Len(n.path[Len(n.path)]) : n.path[Len(n.path)][i] = "."}

\* The name zip gives the entry of a matched path.
EntryName(path) == Some(ReplaceBackslash(JoinPath(path)))

\* The number of children zip reads: fs::read fails on the first directory.
RECURSIVE ReadCount(_)
ReadCount(children) ==
  IF children = <<>> THEN 0
  ELSE IF Head(children).kind = "dir" THEN 1
  ELSE 1 + ReadCount(Tail(children))

ReadsAll(children) == \A k \in 1..Len(children) : children[k].kind = "file"

ZipEntries(children) ==
  [k \in 1..Len(children) |-> SarcEntry(EntryName(children[k].path), children[k].data)]

---------------------------------------------------------------------------
\* unzip

\* format!("unk{}.bin", unk)
UnkName(unk) == <<"u", "n", "k">> \o to_string(unk) \o <<".", "b", "i", "n">>

\* The name unzip writes an entry under.
UnzipName(file, unk) == IF IsSome(file.name) THEN Unwrap(file.name) ELSE UnkName(unk)

\* A bug the counter could have: counting every entry, as to_zip numbers them.
NextUnkEvery(file, unk) == unk + 1

\* The counter after an entry: unk += 1 in the branch of an unnamed entry.
NextUnk(file, unk) == IF IsSome(file.name) THEN unk ELSE unk + 1

\* PathBuf::extend(once(name)), which pushes: a name with a root replaces
\* the path, any other name is joined to it.
Extend(base, name) == IF HasRoot(name) THEN Components(name) ELSE base \o Components(name)

\* fs::create_dir_all(path): the directories it makes, those on the way to
\* path that are not there yet.
create_dir_all(path, there) ==
  {Resolve(SubSeq(path, 1, k)) : k \in 1..Len(path)} \ there

\* fs::write(path, data) on a file system fs, a set of files.
FsWrite(fs, path, data) ==
  {f \in fs : f.path # path} \cup {[path |-> path, data |-> data]}

\* A bug the write could have: its error dropped, as that of create_dir_all is.
AfterWriteIgnored(ok, more) == IF more THEN "unzip" ELSE "done"

\* Where unzip stands after fs::write(..).unwrap() on an entry.
AfterWrite(ok, more) == IF ~ok THEN "panic" ELSE IF more THEN "unzip" ELSE "done"

---------------------------------------------------------------------------
\* list

NoName == <<"[", "n", "o", " ", "n", "a", "m", "e", "]">>
Dashes(n) == [k \in 1..n |-> "-"]
FilesSuffix == <<" ", "f", "i", "l", "e", "(", "s", ")">>

\* file.data[..4]: panics on a payload of fewer than 4 bytes.
Sliceable(data) == Len(data) >= 4
First4(data) == SubSeq(data, 1, 4)

\* The row list adds for an entry.
ListRow(file, byte_count) ==
  << size(Len(file.data), byte_count),
     IF IsSome(file.name) THEN Unwrap(file.name) ELSE NoName,
     CollectHex(First4(file.data)) \o <<" ", "|", " ">> \o CollectChars(First4(file.data)) >>

\* A bug the total could have: counting entries, not bytes.
RECURSIVE total_sizeCount(_)
total_sizeCount(files) ==
  IF files = <<>> THEN 0 ELSE 1 + total_sizeCount(Tail(files))

\* total_size after the loop: += file.data.len() for every entry.
RECURSIVE total_size(_)
total_size(files) ==
  IF files = <<>> THEN 0 ELSE Len(Head(files).data) + total_size(Tail(files))

\* The rows of the table when printstd prints it.
ListTable(files, byte_count) ==
  [k \in 1..Len(files) |-> ListRow(files[k], byte_count)]
  \o << <<Dashes(8), <<>>, Dashes(15)>> >>
  \o << <<size(total_size(files), byte_count), <<>>, to_string(Len(files)) \o FilesSuffix>> >>

---------------------------------------------------------------------------
\* into-zip and from-zip

\* format!("{}.bin", i)
IndexName(i) == to_string(i) \o <<".", "b", "i", "n">>

\* zip.write(&file.data): Write::write takes some of the buffer, at least one
\* byte of a buffer that is not empty, and says how much; to_zip calls it
\* once and drops the count.
WriteCounts(data) == IF data = <<>> THEN {0} ELSE 1..Len(data)

RECURSIVE LongestPayload(_)
LongestPayload(files) ==
  IF files = <<>> THEN 0
  ELSE IF Len(Head(files).data) > LongestPayload(Tail(files)) THEN Len(Head(files).data)
  ELSE LongestPayload(Tail(files))

\* The members to_zip leaves in the ZIP when write k took taken[k] bytes.
ZipMembers(files, taken) ==
  [k \in 1..Len(files) |->
     ZipMember(IF IsSome(files[k].name) THEN Unwrap(files[k].name) ELSE IndexName(k - 1),
               SubSeq(files[k].data, 1, taken[k]))]

\* The entries from_zip makes of the members of a ZIP.
FromZipEntries(members) ==
  [k \in 1..Len(members) |-> SarcEntry(Some(members[k].name), members[k].data)]

---------------------------------------------------------------------------
\* The state: the files the program works on, and one run of the program.

VARIABLES
  fsIn,    \* the directory in_dir of zip, a set of nodes
  sarcA,   \* the archive file: out_file of zip, in_file of unzip, into-zip, list
  zipB,    \* the ZIP file: out_file of into-zip, in_file of from-zip
  sarcC,   \* the archive file out_file of from-zip
  outFs,   \* the files this run has written, by absolute path
  dirs,    \* the directories this run has made
  pc,      \* where the run is: start, unzip (in its loop), done, panic, rejected
  cmd,     \* the command line of the run
  sarc,    \* unzip: the archive read
  i,       \* unzip: the number of entries the loop has taken
  unk,     \* unzip: the counter unk
  io,      \* the calls of the run that read or write files, in order
  stdout,  \* the lines printed
  table,   \* list: the rows printstd has printed
  wlog,    \* unzip: its calls of fs::write, in order
  prev     \* the run before this one: its verb and how it ended

disk == <<fsIn, sarcA, zipB, sarcC>>
vars == <<fsIn, sarcA, zipB, sarcC, outFs, dirs, pc, cmd, sarc, i, unk, io, stdout, table, wlog, prev>>

NoRun == [verb |-> "none", pc |-> "start"]

\* A process at its start: nothing read, written or printed.
Fresh ==
  /\ outFs = {} /\ dirs = {} /\ pc = "start" /\ cmd = NoCommand
  /\ sarc = SarcFile("Little", <<>>) /\ i = 0 /\ unk = 0
  /\ io = <<>> /\ stdout = <<>> /\ table = <<>> /\ wlog = <<>>

\* The files before the first run: a directory to pack, or an archive (or
\* something that is none) to read, or a ZIP (or something that is none).
Init ==
  /\ Fresh
  /\ prev = NoRun
  /\ sarcC = Absent
  /\ \/ fsIn \in Trees /\ sarcA = Absent /\ zipB = Absent
     \/ fsIn = {} /\ sarcA \in GivenArchives \cup {Garbage} /\ zipB = Absent
     \/ fsIn = {} /\ sarcA = Absent /\ zipB \in GivenZips \cup {Garbage}

\* main: Args::from_args exits on a command line it rejects.
MainRejected(c) ==
  /\ pc = "start"
  /\ Rejects(c)
  /\ cmd' = c
  /\ pc' = "rejected"
  /\ UNCHANGED <<disk, outFs, dirs, sarc, i, unk, io, stdout, table, wlog, prev>>

\* main, Command::Zip: zip(yaz0, zstd, in_dir, out_file, endian(big_endian)),
\* the glob yielding the matched paths in the order children.
MainZip(c, children) ==
  /\ pc = "start"
  /\ c.verb = "zip"
  /\ ~Rejects(c)
  /\ cmd' = c
  /\ io' = <<"glob">> \o [k \in 1..ReadCount(children) |-> "fs::read"]
             \o (IF ReadsAll(children) THEN <<writer(c.yaz0, c.zstd)>> ELSE <<>>)
  /\ sarcA' = IF ReadsAll(children)
              THEN write(SarcFile(endian(c.big_endian), ZipEntries(children)), c.yaz0, c.zstd)
              ELSE sarcA
  /\ pc' = IF ReadsAll(children) THEN "done" ELSE "panic"
  /\ UNCHANGED <<fsIn, zipB, sarcC, outFs, dirs, sarc, i, unk, stdout, table, wlog, prev>>

\* main, Command::Unzip: unzip up to its loop.
MainUnzip(c) ==
  /\ pc = "start"
  /\ c.verb = "unzip"
  /\ cmd' = c
  /\ io' = <<"read_from_file">>
  /\ IF Decodable(sarcA)
     THEN /\ sarc' = read_from_file(sarcA)
          /\ pc' = IF sarcA.files = <<>> THEN "done" ELSE "unzip"
     ELSE /\ sarc' = sarc
          /\ pc' = "panic"
  /\ unk' = 0
  /\ i' = 0
  /\ UNCHANGED <<disk, outFs, dirs, stdout, table, wlog, prev>>

\* unzip: one turn of its loop; ok says whether fs::write succeeds, which
\* it cannot on a directory.
UnzipEntry(ok) ==
  /\ pc = "unzip"
  /\ LET file == sarc.files[i + 1]
         name == UnzipName(file, unk)
         path == Extend(OutDir, name)
         made == create_dir_all(Parent(path), Existing \cup dirs)
     IN /\ ok => Resolve(path) \notin Existing \cup dirs \cup made
        /\ stdout' = IF IsSome(file.name) THEN stdout
                     ELSE Append(stdout, "WARN: file does not have name")
        /\ unk' = NextUnk(file, unk)
        /\ dirs' = dirs \cup made
        /\ io' = io \o <<"create_dir_all", "fs::write">>
        /\ wlog' = Append(wlog, [name |-> name, path |-> Resolve(path),
                                 data |-> file.data, ok |-> ok])
        /\ outFs' = IF ok THEN FsWrite(outFs, Resolve(path), file.data) ELSE outFs
        /\ i' = i + 1
        /\ pc' = AfterWrite(ok, i + 1 < Len(sarc.files))
  /\ UNCHANGED <<disk, cmd, sarc, table, prev>>

\* main, Command::List: list(in_file, byte_count).
MainList(c) ==
  /\ pc = "start"
  /\ c.verb = "list"
  /\ cmd' = c
  /\ io' = <<"read_from_file">>
  /\ IF ~Decodable(sarcA)
     THEN pc' = "panic" /\ stdout' = stdout /\ table' = table
     ELSE /\ stdout' = <<"Endian: " \o read_from_file(sarcA).byte_order>>
          /\ IF \A k \in 1..Len(sarcA.files) : Sliceable(sarcA.files[k].data)
             THEN pc' = "done" /\ table' = ListTable(read_from_file(sarcA).files, c.byte_count)
             ELSE pc' = "panic" /\ table' = table
  /\ UNCHANGED <<disk, outFs, dirs, sarc, i, unk, wlog, prev>>

\* main, Command::IntoZip: to_zip(in_file, out_file), write k taking
\* taken[k] bytes.
MainIntoZip(c, taken) ==
  /\ pc = "start"
  /\ c.verb = "into_zip"
  /\ cmd' = c
  /\ IF ~Decodable(sarcA)
     THEN /\ taken = <<>>
          /\ io' = <<"read_from_file">>
          /\ pc' = "panic"
          /\ zipB' = zipB
     ELSE /\ Len(taken) = Len(sarcA.files)
          /\ \A k \in 1..Len(taken) : taken[k] \in WriteCounts(sarcA.files[k].data)
          /\ io' = <<"read_from_file", "File::create">>
                     \o [k \in 1..Len(taken) |-> "zip.write"]
          /\ pc' = "done"
          /\ zipB' = ZipFile(ZipMembers(read_from_file(sarcA).files, taken))
  /\ UNCHANGED <<fsIn, sarcA, sarcC, outFs, dirs, sarc, i, unk, stdout, table, wlog, prev>>

\* main, Command::FromZip: from_zip(yaz0, zstd, in_file, out_file,
\* endian(big_endian)).
MainFromZip(c) ==
  /\ pc = "start"
  /\ c.verb = "from_zip"
  /\ ~Rejects(c)
  /\ cmd' = c
  /\ IF zipB.kind # "zip"
     THEN /\ io' = <<"ZipArchive::new">>
          /\ pc' = "panic"
          /\ sarcC' = sarcC
     ELSE /\ io' = <<"ZipArchive::new">> \o [k \in 1..Len(zipB.files) |-> "by_index"]
                     \o <<writer(c.yaz0, c.zstd)>>
          /\ pc' = "done"
          /\ sarcC' = write(SarcFile(endian(c.big_endian), FromZipEntries(zipB.files)),
                            c.yaz0, c.zstd)
  /\ UNCHANGED <<fsIn, sarcA, zipB, outFs, dirs, sarc, i, unk, stdout, table, wlog, prev>>

\* One run of the program.
Next ==
  \/ \E c \in Commands : MainRejected(c)
  \/ \E c \in Commands : \E children \in Orders(glob(fsIn)) : MainZip(c, children)
  \/ \E c \in Commands : MainUnzip(c)
  \/ \E ok \in BOOLEAN : UnzipEntry(ok)
  \/ \E c \in Commands : MainList(c)
  \/ \E c \in Commands : \E taken \in SeqsUpTo(0..LongestPayload(sarcA.files), Len(sarcA.files)) :
       MainIntoZip(c, taken)
  \/ \E c \in Commands : MainFromZip(c)

Spec == Init /\ [][Next]_vars

\* The run over, the next one starts: a second process, on the files the
\* first has left.
NextRun ==
  /\ pc \in {"done", "panic", "rejected"}
  /\ prev = NoRun
  /\ prev' = [verb |-> cmd.verb, pc |-> pc]
  /\ outFs' = {} /\ dirs' = {} /\ pc' = "start" /\ cmd' = NoCommand
  /\ sarc' = SarcFile("Little", <<>>) /\ i' = 0 /\ unk' = 0
  /\ io' = <<>> /\ stdout' = <<>> /\ table' = <<>> /\ wlog' = <<>>
  /\ UNCHANGED disk

NextTwo == Next \/ NextRun

\* Two runs of the program, one after the other.
SpecTwo == Init /\ [][NextTwo]_vars

---------------------------------------------------------------------------
\* The properties.

Range(s) == {s[k] : k \in 1..Len(s)}

\* The files of a directory tree as unzip would have to leave them in OutDir.
RegularFiles(tree) ==
  {[path |-> OutDir \o n.path, data |-> n.data] : n \in {m \in tree : m.kind = "file"}}

\* C1: a directory packed by zip and unpacked by unzip comes out as it was:
\* the files unzip writes are the regular files of the directory, each at
\* its relative path with its bytes, none missing and none extra.
C1_PackUnpackRoundTrip ==
  (prev = [verb |-> "zip", pc |-> "done"] /\ cmd.verb = "unzip" /\ pc = "done")
    => outFs = RegularFiles(fsIn)

\* C2: list does not crash on an archive that decodes, whatever the length
\* of its payloads: it ends with the table printed, totals row included.
C2_ListNeverCrashes ==
  (cmd.verb = "list" /\ Decodable(sarcA))
    => (pc = "done" /\ Len(table) = Len(sarcA.files) + 2)

\* The number of unnamed entries among the first n of files.
UnnamedAmong(files, n) == Cardinality({k \in 1..n : ~IsSome(files[k].name)})

Warnings(lines) ==
  Cardinality({k \in 1..Len(lines) : lines[k] = "WARN: file does not have name"})

\* C3: unzip writes a named entry under its name and the k-th unnamed entry
\* (k from 0, over the unnamed entries, in archive order) as unk{k}.bin,
\* with one warning for each unnamed entry; the names it makes up differ
\* from one another.
C3_UnpackNaming ==
  (cmd.verb = "unzip" /\ Decodable(sarcA)) =>
    /\ Len(wlog) = i
    /\ i <= Len(sarcA.files)
    /\ pc = "done" => i = Len(sarcA.files)
    /\ \A j \in 1..Len(wlog) :
         wlog[j].name =
           IF IsSome(sarcA.files[j].name) THEN Unwrap(sarcA.files[j].name)
           ELSE <<"u", "n", "k">> \o to_string(UnnamedAmong(sarcA.files, j - 1))
                  \o <<".", "b", "i", "n">>
    /\ Warnings(stdout) = UnnamedAmong(sarcA.files, Len(wlog))
    /\ Len(stdout) = Warnings(stdout)
    /\ \A j, k \in 1..Len(wlog) :
         (j < k /\ ~IsSome(sarcA.files[j].name) /\ ~IsSome(sarcA.files[k].name))
           => wlog[j].name # wlog[k].name

\* C3, its case: the second entry of two is the only unnamed one and has
\* been written as unk0.bin, with one warning, the first under its name.
C3_Witness ==
  /\ cmd.verb = "unzip" /\ pc = "done"
  /\ sarcA.files = <<TestBin, UnnamedEntry>>
  /\ wlog[1].name = <<"t", "e", "s", "t", ".", "b", "i", "n">>
  /\ wlog[2].name = <<"u", "n", "k", "0", ".", "b", "i", "n">>
  /\ stdout = <<"WARN: file does not have name">>

\* C4: an archive turned into a ZIP by into-zip and back by from-zip has
\* the same number of entries in the same order, entry i with all the bytes
\* of the payload it had and with its name, or with the name {i}.bin (i from
\* 0 over all entries) if it had none.
C4_ZipRoundTrip ==
  (prev = [verb |-> "into_zip", pc |-> "done"] /\ cmd.verb = "from_zip" /\ pc = "done") =>
    /\ Len(sarcC.files) = Len(sarcA.files)
    /\ \A k \in 1..Len(sarcA.files) :
         /\ sarcC.files[k].data = sarcA.files[k].data
         /\ sarcC.files[k].name =
              Some(IF IsSome(sarcA.files[k].name) THEN Unwrap(sarcA.files[k].name)
                   ELSE to_string(k - 1) \o <<".", "b", "i", "n">>)

\* C5: a zip or from-zip command line with both --yaz0 and --zstd, or with
\* both --big-endian and --little-endian, is rejected, and then nothing is
\* read and nothing written.
C5_ConflictingFlagsRejected ==
  (/\ cmd.verb \in {"zip", "from_zip"}
   /\ (cmd.yaz0 /\ cmd.zstd) \/ (cmd.big_endian /\ cmd.little_endian))
    => (pc = "rejected" /\ io = <<>>)

\* C6: in unzip, an archive that does not decode leaves no directory and no
\* file; and a write that fails is the last thing unzip does: the entries
\* before it have been written, in order, and none after it is touched.
C6_UnpackFailureOrdering ==
  cmd.verb = "unzip" =>
    /\ ~Decodable(sarcA) => (pc = "panic" /\ outFs = {} /\ dirs = {} /\ wlog = <<>>)
    /\ Decodable(sarcA) =>
         /\ Len(wlog) <= Len(sarcA.files)
         /\ \A j \in 1..Len(wlog) :
              /\ wlog[j].data = sarcA.files[j].data
              /\ ~wlog[j].ok => (j = Len(wlog) /\ pc = "panic")
              /\ wlog[j].ok => \E f \in outFs : f.path = wlog[j].path
         /\ pc = "panic" => (Len(wlog) >= 1 /\ ~wlog[Len(wlog)].ok)
         /\ \A f \in outFs :
              \E j \in 1..Len(wlog) :
                wlog[j].ok /\ wlog[j].path = f.path /\ wlog[j].data = f.data

\* C6, its case: the write of the second entry of two fails, the first
\* entry is on disk and unzip has stopped.
C6_Witness ==
  /\ cmd.verb = "unzip" /\ pc = "panic"
  /\ Len(sarcA.files) = 2 /\ Len(wlog) = 2
  /\ wlog[1].ok /\ ~wlog[2].ok
  /\ Cardinality(outFs) = 1

\* All the payloads of files, one after the other.
RECURSIVE AllBytes(_)
AllBytes(files) ==
  IF files = <<>> THEN <<>> ELSE Head(files).data \o AllBytes(Tail(files))

\* C7: list of an archive whose entries can be listed prints one row for
\* each entry, in archive order, then (after the row of dashes) a totals row
\* with the sum of the payload lengths and "N file(s)", N the number of
\* entries; with no entry, no entry row, size 0 and "0 file(s)".
C7_ListingTotals ==
  (cmd.verb = "list" /\ pc = "done") =>
    LET entries == sarcA.files
        n == Len(entries)
    IN /\ Len(table) = n + 2
       /\ \A k \in 1..n :
            /\ table[k][1] = size(Len(entries[k].data), cmd.byte_count)
            /\ table[k][2] =
                 IF IsSome(entries[k].name) THEN Unwrap(entries[k].name) ELSE NoName
       /\ table[n + 2][1] = size(Len(AllBytes(entries)), cmd.byte_count)
       /\ table[n + 2][3] = to_string(n) \o <<" ", "f", "i", "l", "e", "(", "s", ")">>
       /\ n = 0 =>
            /\ table[2][1] = IF cmd.byte_count THEN <<"0">> ELSE <<"0", " ", "B">>
            /\ table[2][3] = <<"0", " ", "f", "i", "l", "e", "(", "s", ")">>

\* C7, its case: two entries of 6 and 4 bytes listed with --byte-count, the
\* totals row showing 10 and "2 file(s)".
C7_Witness ==
  /\ cmd.verb = "list" /\ pc = "done" /\ cmd.byte_count
  /\ sarcA.files = <<TestBin, NestedEntry>>
  /\ Len(table) = 4
  /\ table[4][1] = <<"1", "0">>
  /\ table[4][3] = <<"2", " ", "f", "i", "l", "e", "(", "s", ")">>

\* The value of an upper-case hex digit, the code of a printable character.
HexValue(c) == CHOOSE v \in 0..15 : UpperHexDigits[v + 1] = c
CodeOf(c) == CHOOSE v \in 32..126 : AsciiPrintable[v - 31] = c

TestBinListed == cmd.verb = "list" /\ pc = "done" /\ sarcA.files = <<TestBin>>

\* C8, as claimed: the row of the 6-byte entry 01 02 03 04 05 06 named
\* test.bin shows the name test.bin and the preview "01 02 03 04 | ....".
C8_PreviewAsClaimed ==
  TestBinListed =>
    /\ table[1][2] = <<"t", "e", "s", "t", ".", "b", "i", "n">>
    /\ table[1][3] = <<"0", "1", " ", "0", "2", " ", "0", "3", " ", "0", "4",
                       " ", "|", " ", ".", ".", ".", ".">>

\* C8, amended: the preview of an entry is made of its first 4 bytes only:
\* their four two-digit upper-case hex pairs with nothing between them, then
\* " | ", then four characters, a byte in 0x20..0x7E as its ASCII character
\* and any other byte as "."; the row of test.bin shows the name test.bin
\* and the preview "01020304 | ....".
C8_PreviewFormat ==
  (cmd.verb = "list" /\ pc = "done") =>
    /\ \A k \in 1..Len(sarcA.files) :
         LET p == table[k][3]
             d == sarcA.files[k].data
         IN /\ Len(p) = 15
            /\ SubSeq(p, 9, 11) = <<" ", "|", " ">>
            /\ \A j \in 1..4 :
                 /\ p[2 * j - 1] \in Range(UpperHexDigits)
                 /\ p[2 * j] \in Range(UpperHexDigits)
                 /\ 16 * HexValue(p[2 * j - 1]) + HexValue(p[2 * j]) = d[j]
                 /\ p[11 + j] \in Range(AsciiPrintable)
                 /\ IF 32 <= d[j] /\ d[j] <= 126
                    THEN CodeOf(p[11 + j]) = d[j]
                    ELSE p[11 + j] = "."
    /\ TestBinListed =>
         /\ table[1][2] = <<"t", "e", "s", "t", ".", "b", "i", "n">>
         /\ table[1][3] = <<"0", "1", "0", "2", "0", "3", "0", "4",
                            " ", "|", " ", ".", ".", ".", ".">>

\* C8, its case: test.bin listed, with its preview in the table.
C8_Witness == TestBinListed /\ Len(table[1][3]) = 15

\* The writers of the archive library the run has called.
WriterCalls ==
  SelectSeq(io, LAMBDA e : e \in {"write_yaz0", "write_zstd", "write_to_file"})

\* C9: a zip or from-zip run that is accepted writes the archive once, by
\* the one writer its flags select: the raw one with neither --yaz0 nor
\* --zstd, the yaz0 one with --yaz0, the zstd one with --zstd; and the
\* archive is big-endian exactly when --big-endian is set.
C9_OutputSelection ==
  cmd.verb \in {"zip", "from_zip"} =>
    /\ Len(WriterCalls) <= 1
    /\ pc = "rejected" => WriterCalls = <<>>
    /\ pc = "done" =>
         LET out == IF cmd.verb = "zip" THEN sarcA ELSE sarcC
             chosen == CASE cmd.yaz0 /\ ~cmd.zstd -> "write_yaz0"
                         [] cmd.zstd /\ ~cmd.yaz0 -> "write_zstd"
                         [] ~cmd.yaz0 /\ ~cmd.zstd -> "write_to_file"
                         [] OTHER -> "none"
         IN /\ WriterCalls = <<chosen>>
            /\ out.kind = "sarc"
            /\ out.wrap = chosen
            /\ out.byte_order = "Big" <=> cmd.big_endian
            /\ out.byte_order = "Little" <=> ~cmd.big_endian

\* C9, its case: zip with --zstd and --big-endian has written a big-endian
\* archive of one entry through the zstd writer.
C9_Witness ==
  /\ cmd.verb = "zip" /\ pc = "done" /\ cmd.zstd /\ cmd.big_endian
  /\ sarcA.wrap = "write_zstd" /\ sarcA.byte_order = "Big"
  /\ Len(sarcA.files) = 1
  /\ io = <<"glob", "fs::read", "write_zstd">>

\* C10: every file unzip writes and every directory it makes lies inside
\* the output directory, whatever the names of the entries.
C10_UnpackContained ==
  cmd.verb = "unzip" =>
    /\ \A f \in outFs : IsPrefix(OutDir, f.path)
    /\ \A d \in dirs : IsPrefix(OutDir, d)

===========================================================================
